---- MODULE Spec2Model ----
(***************************************************************************)
(* Model of the parallel MCMC sampler of cplate                            *)
(* (src/lib/cplate/deconvolve_mcmc.py): the coordinator master(), the      *)
(* workers worker(), and the tagged messages between them.                 *)
(* Further specifications cover run() from load_data on (RunSpec), the      *)
(* region-level update in numbers (GibbsSpec), and the peak searches of     *)
(* src/lib/cplate/summarise_mcmc.py (SearchSpec).                           *)
(*                                                                         *)
(* Positions are 0-based as in the source; a vector over the chromosome    *)
(* is a function on 0..chrom_length-1.  Sequences (start_vec, ret_val,     *)
(* channels) are 1-based TLA+ sequences: Python index i is TLA+ index i+1. *)
(*                                                                         *)
(* Real values are abstracted by the identity of the random draw that      *)
(* produced them: InitVal for init['theta'], <<t, start, c>> for the        *)
(* proposal of the block at `start` dispatched in iteration t (c tells the *)
(* blocks of one iteration that share a start apart), <<t>> for the        *)
(* region-level draw of iteration t.  Two different draws are different    *)
(* values; a value is never altered in transit.                            *)
(***************************************************************************)
EXTENDS Integers, Sequences, FiniteSets, TLC

VARIABLES
    \* configuration and data (cfg, data), fixed for the run
    reads_size,         \* reads.size: entries on the chromosome's line of the read-count file
    region_types_size,  \* region_types.size as read from the region file
    chrom_length,       \* y.size
    cfg_block_width,    \* cfg['estimation_params']['block_width']: <<>> is None, <<b>> is b
    template_size,      \* template.size
    n_proc,             \* comm.Get_size()
    max_iter,           \* cfg['mcmc_params']['mcmc_iterations']
    n_regions,          \* region_ids.size
    region_types,       \* data['region_types']: region id of every position
    region_ids,         \* data['region_ids']: the distinct labels
    region_list,        \* data['region_list'][r]: << start, stop >> of a slice, << >> for None
    region_sizes,       \* data['region_sizes'][r]
    prior,              \* cfg['prior']: a0, b0, k0
    prior_mean,         \* prior_mean[r] of master()
    \* master()
    m_pc,               \* position of the coordinator
    t,                  \* loop variable of "for t in xrange(1, max_iter)"
    theta, mu, sigmasq, \* draw histories, one row per iteration
    start_vec,          \* schedule of block starts (shuffled in place)
    n_jobs, n_started, n_completed,
    assigned,           \* assigned[k]: start last recorded for worker k, and the iteration that recorded it
    accept_stats,       \* acceptance counter per position
    \* worker(), one per rank 1..n_proc-1
    w_state,            \* "working" (in the command loop), "stopped" (left it), "crashed"
    w_theta, w_mu, w_sigmasq,   \* local copies of the parameters
    \* messages in flight
    chan,               \* chan[k]: point-to-point messages master -> worker k, in order
    bcast,              \* bcast[k]: broadcast payloads not yet taken by worker k, in order
    to_master,          \* to_master[k]: result messages of worker k not yet received
    \* history of the WORK commands sent
    dispatch_count,     \* dispatch_count[i]: WORK commands sent for start_vec[i] in this iteration
    last_work,          \* last_work[k]: start and iteration of the last WORK sent to worker k,
                        \* and the coordinator's theta[t] at the moment it was sent
    \* history of the results sent
    accepts_sent,       \* accepts_sent[p]: results sent with tag 1 whose range [start,end) holds p
    accepted_jobs,      \* draws of this iteration that a worker accepted
    \* schedule scan (block geometry of each schedule entry)
    scan_i, scan_geo,
    \* summarise_mcmc.py: arguments and results of the peak searches
    x,                  \* sequence searched for local maxima
    boundary,           \* find_maxima(boundary=...)
    min_spacing, remove_boundary,   \* greedy_maxima_search(min_spacing=..., remove_boundary=...)
    maxima,             \* result of find_maxima: 0/1 per position
    peaks,              \* result of greedy_maxima_search: positions
    positions,          \* maxima_search: the positions still kept
    s_pc                \* "idle", "called", "returned", "raised"

vars == << reads_size, region_types_size, chrom_length, cfg_block_width, template_size,
           n_proc, max_iter, n_regions, region_types, region_ids, region_list,
           region_sizes, prior, prior_mean,
           x, boundary, min_spacing, remove_boundary, maxima, peaks, positions, s_pc,
           m_pc, t, theta, mu, sigmasq, start_vec, n_jobs, n_started, n_completed,
           assigned, accept_stats, w_state, w_theta, w_mu, w_sigmasq,
           chan, bcast, to_master, dispatch_count, last_work, accepts_sent, accepted_jobs,
           scan_i, scan_geo >>

cfgvars == << reads_size, region_types_size, chrom_length, cfg_block_width, template_size,
             n_proc, max_iter, n_regions, region_types, region_ids, region_list,
             region_sizes, prior, prior_mean >>
summvars == << x, boundary, min_spacing, remove_boundary, maxima, peaks, positions, s_pc >>
mastervars == << m_pc, t, theta, mu, sigmasq, start_vec, n_jobs, n_started, n_completed,
                 assigned, accept_stats >>
workervars == << w_state, w_theta, w_mu, w_sigmasq >>
histvars == << dispatch_count, last_work, accepts_sent, accepted_jobs >>
scanvars == << scan_i, scan_geo >>

----------------------------------------------------------------------------
\* Bounds of the model
MaxL == 2
MaxBW == 2
MaxTemplate == 2
MaxProc == 3
MaxIter == 3
MaxRegions == 1
\* Bounds of the region files: number of labels, and largest label
MaxLabelL == 3
MaxLabel == 2
\* Bounds of the region-update specification
MaxGibbsL == 3
MaxTheta == 1
\* Bounds of the peak-search specification
MaxX == 5
MaxVal == 2
MaxSpacing == 2
MaxRemove == 1
\* Bounds of the spaced search (maxima_search)
MaxSpacedX == 7
MaxSpacedVal == 2
MaxSpacedSpacing == 3
\* Bounds of the schedule-only specification
MaxSchedL == 12
MaxSchedBW == 9
MaxSchedTemplate == 3

\* Program constants
MPIROOT == 0
STOPTAG == 0
SYNCTAG == 1
WORKTAG == 2
UPDATETAG == 3

----------------------------------------------------------------------------
\* Values
InitVal == << 0, 0, 0 >>       \* an entry of init['theta']
Uninit == << -1, 0, 0 >>       \* an entry of np.empty() storage never written
Zero == << -2, 0, 0 >>         \* the literal 0 written into the tail of ret_val
NoJob == << 0, 0, 0 >>
MasterInitParam == << 0 >>     \* an entry of the coordinator's init['mu'] / init['sigmasq']
WorkerInitParam == << -3 >>    \* the same drawn by a worker's own initialize()
UninitParam == << -1 >>        \* an entry of np.empty() storage never written
ParamDraw(tt) == << tt >>      \* a region-level draw of iteration tt

Min(a, b) == IF a <= b THEN a ELSE b
Max(a, b) == IF a >= b THEN a ELSE b

Positions == 0..(chrom_length - 1)
Regions == 0..(n_regions - 1)
Workers == 1..(n_proc - 1)

\* np.arange(lo, hi, step) for step > 0
ARange(lo, hi, step) ==
    IF hi <= lo THEN << >>
    ELSE [ i \in 1..((hi - lo + step - 1) \div step) |-> lo + (i - 1) * step ]

\* (variant: every entry is drawn anew from the sequence, with replacement)
ShufflesResampled(s) ==
    { [ i \in 1..Len(s) |-> s[f[i]] ] : f \in [ 1..Len(s) -> 1..Len(s) ] }

\* Permutations of a sequence: the orders np.random.shuffle can leave it in
Shuffles(s) ==
    { [ i \in 1..Len(s) |-> s[f[i]] ] : f \in Permutations(1..Len(s)) }

----------------------------------------------------------------------------
\* Derived quantities of master() and worker()

\* n_workers = n_proc - 1
n_workers == n_proc - 1

\* block_width: chrom_length / n_workers if not configured (Python 2 integer division)
BlockWidth ==
    IF cfg_block_width = << >> THEN chrom_length \div n_workers ELSE cfg_block_width[1]

\* w = template.size/2 + 1
HaloW == template_size \div 2 + 1

\* (variant: the second scan starts where the first does)
SecondScanAligned(bw) == 0

\* start of the second scan: block_width/2
SecondScanStart(bw) == bw \div 2

\* start_vec before any shuffle: the two scans, concatenated
DoubleScan(L, bw) == ARange(0, L, bw) \o ARange(SecondScanStart(bw), L, bw)

\* end = min(start+block_width, chrom_length), as master and worker compute it
BlockEnd(start, bw, L) == Min(start + bw, L)

\* The worker's slices for one start offset.  block is in absolute positions;
\* subset and original are relative to block.start, as in the source.
BlockGeometry(start, bw, L, w) ==
    LET end == BlockEnd(start, bw, L)
        blo == Max(start - w, 0)
        bhi == Min(end + w, L)
        size_block == bhi - blo
        sub_start == w * (IF start # 0 THEN 1 ELSE 0) + start - blo
        sub_stop == size_block - w * (IF end # L THEN 1 ELSE 0) - (bhi - end)
    IN  [ start |-> start, end |-> end,
          block_start |-> blo, block_stop |-> bhi, size_block |-> size_block,
          subset_start |-> sub_start, subset_stop |-> sub_stop,
          size_subset |-> sub_stop - sub_start,
          original_start |-> start - blo,
          original_stop |-> size_block - (bhi - end) ]

\* Absolute positions a proposal replaces: theta_prop[subset] = theta_draw.
\* Only used when size_subset > 0, where the slice has no negative index.
SubsetPositions(g) ==
    { p \in Positions : g.block_start + g.subset_start <= p
                        /\ p < g.block_start + g.subset_stop }

\* Absolute positions of theta_block[original]
OriginalPositions(g) ==
    { p \in Positions : g.block_start + g.original_start <= p
                        /\ p < g.block_start + g.original_stop }

----------------------------------------------------------------------------
\* Messages

SyncMsg == [ tag |-> SYNCTAG, data |-> 0, job |-> NoJob ]
\* job identifies the random draw the block will make; it is not transmitted
WorkMsg(start, job) == [ tag |-> WORKTAG, data |-> start, job |-> job ]
UpdateMsg == [ tag |-> UPDATETAG, data |-> 0, job |-> NoJob ]
\* the theta payload following an UPDATE is sent with tag=MPIROOT
ThetaMsg(row) == [ tag |-> MPIROOT, data |-> row, job |-> NoJob ]
StopMsg == [ tag |-> STOPTAG, data |-> << >>, job |-> NoJob ]

\* (variant: the initial mu and sigmasq are broadcast in every iteration)
BcastStaleParams(tt) == << theta[tt - 1], mu[0], sigmasq[0] >>

\* What the three broadcasts of iteration tt carry
BcastPayloads(tt) == << theta[tt - 1], mu[tt - 1], sigmasq[tt - 1] >>

\* (variant: the assignment is not recorded)
RecordAssignedForgotten(asg, k, s, tt) == asg

\* assigned[worker-1] = start_vec[n_started], with the iteration that wrote it
RecordAssigned(asg, k, s, tt) == [ asg EXCEPT ![k] = [ start |-> s, iter |-> tt ] ]

\* (variant: the loop ends one result early)
LoopDoneEarly(nc, nj) == ~(nc < nj - 1)

\* exit test of "while n_completed < n_jobs"
LoopDone(nc, nj) == ~(nc < nj)

\* (variant: the halt loop misses the last rank)
HaltDestsShort == 1..(n_proc - 2)

\* destinations of the halt loop: range(1, n_proc)
HaltDests == 1..(n_proc - 1)

\* (variant: the row is sent as it was before the result was merged)
UpdatePayloadBeforeMerge(merged, tt) == theta[tt]

\* comm.Send(theta[t], dest=worker, tag=MPIROOT), after the merge of line 379
UpdatePayload(merged, tt) == merged[tt]

\* (variant: the result is written into the previous row)
MergeIntoPreviousRow(th, tt, lo, hi, ret_val) ==
    [ th EXCEPT ![tt - 1] = [ p \in Positions |->
        IF lo <= p /\ p < hi THEN ret_val[p - lo + 1] ELSE th[tt - 1][p] ] ]

\* theta[tt, lo:hi] = ret_val[:hi-lo]
MergeIntoRow(th, tt, lo, hi, ret_val) ==
    [ th EXCEPT ![tt] = [ p \in Positions |->
        IF lo <= p /\ p < hi THEN ret_val[p - lo + 1] ELSE th[tt][p] ] ]

\* (variant: every result is counted, whatever its tag)
CountAcceptAlways(acc, lo, hi, tag) ==
    [ p \in Positions |-> IF lo <= p /\ p < hi THEN acc[p] + 1 ELSE acc[p] ]

\* accept_stats[lo:hi] += tag
CountAccept(acc, lo, hi, tag) ==
    [ p \in Positions |-> IF lo <= p /\ p < hi THEN acc[p] + tag ELSE acc[p] ]

----------------------------------------------------------------------------
\* Initial states: master() and worker() entered after load_data / initialize

\* init['theta'] is computed from the data alone, the same in every process
InitThetaRow == [ p \in Positions |-> InitVal ]

\* Region labels as load_data leaves them for a well-formed region file:
\* zero-based, every id of 0..nr-1 present, each region one contiguous run
Labelings(L, nr) ==
    { f \in [ 0..(L - 1) -> 0..(nr - 1) ] :
        /\ \A r \in 0..(nr - 1) : \E p \in 0..(L - 1) : f[p] = r
        /\ \A p \in 0..(L - 2) : f[p] <= f[p + 1] }

\* Smallest and largest label of a label vector
LabelMin(lab) == CHOOSE m \in { lab[p] : p \in DOMAIN lab } : \A q \in DOMAIN lab : m <= lab[q]
LabelMax(lab) == CHOOSE m \in { lab[p] : p \in DOMAIN lab } : \A q \in DOMAIN lab : m >= lab[q]

\* region_types[:chrom_length]
Truncated(lab, L) == [ p \in 0..(L - 1) |-> lab[p] ]

\* region_types -= region_types.min()
ZeroBased(lab) == [ p \in DOMAIN lab |-> lab[p] - LabelMin(lab) ]

\* np.unique(region_types)
RegionIds(lab) == { lab[p] : p \in DOMAIN lab }

\* np.where(region_types==r)[0]
RegionWhere(lab, r) == { p \in DOMAIN lab : lab[p] = r }

\* region_list: [None]*n_regions with n_regions = region_types.max() + 1, then
\* region_list[r] = slice(region.min(), region.max()+1) for r in region_ids
RegionList(lab) ==
    [ r \in 0..LabelMax(lab) |->
        IF r \in RegionIds(lab)
        THEN << LabelMin([ p \in RegionWhere(lab, r) |-> p ]),
                LabelMax([ p \in RegionWhere(lab, r) |-> p ]) + 1 >>
        ELSE << >> ]

\* region_sizes: np.ones(n_regions), then region_sizes[r] = region.size
RegionSizes(lab) ==
    [ r \in 0..LabelMax(lab) |->
        IF r \in RegionIds(lab) THEN Cardinality(RegionWhere(lab, r)) ELSE 1 ]

\* The region data of load_data for the labels in region_types
RegionsLoaded ==
    /\ region_ids = RegionIds(region_types)
    /\ region_list = RegionList(region_types)
    /\ region_sizes = RegionSizes(region_types)

\* Label vectors of a well-formed region file of `size` labels: runs of equal
\* labels, each run's label one more than the one before, starting anywhere
RegionFiles(size) ==
    { f \in [ 0..(size - 1) -> 0..MaxLabel ] :
        /\ \A p \in 0..(size - 2) : f[p + 1] \in { f[p], f[p] + 1 }
        /\ f[size - 1] - f[0] < MaxRegions }

\* No call into summarise_mcmc.py is in progress
SummaryIdle ==
    /\ x = << >> /\ boundary = FALSE
    /\ min_spacing = 1 /\ remove_boundary = 0
    /\ maxima = << >> /\ peaks = << >> /\ positions = << >>
    /\ s_pc = "idle"

\* The priors of the run: a0, b0 > 0 (inverse-gamma prior), k0 >= 0, and the
\* prior mean of every region (mu0, or adapted from the coverage)
PriorOfRun ==
    /\ prior = [ a0 |-> 1, b0 |-> 1, k0 |-> 1 ]
    /\ prior_mean = [ r \in Regions |-> 0 ]

\* State of the processes for a given configuration.  init['mu'] and
\* init['sigmasq'] are either loaded from the EM output (the same in every
\* process) or drawn at random by each process (initialize), so a worker's
\* starting values need not be the coordinator's.
InitProcesses ==
    /\ m_pc = "setup"
    /\ t = 0
    /\ theta = [ s \in 0..(max_iter - 1) |->
                   IF s = 0 THEN InitThetaRow ELSE [ p \in Positions |-> Uninit ] ]
    /\ mu = [ s \in 0..(max_iter - 1) |->
                [ r \in Regions |-> IF s = 0 THEN MasterInitParam ELSE UninitParam ] ]
    /\ sigmasq = [ s \in 0..(max_iter - 1) |->
                [ r \in Regions |-> IF s = 0 THEN MasterInitParam ELSE UninitParam ] ]
    /\ start_vec = << >>
    /\ n_jobs = 0 /\ n_started = 0 /\ n_completed = 0
    /\ assigned = [ k \in Workers |-> [ start |-> 0, iter |-> 0 ] ]
    /\ accept_stats = [ p \in Positions |-> 0 ]
    /\ w_state = [ k \in Workers |-> "working" ]
    /\ w_theta = [ k \in Workers |-> InitThetaRow ]
    /\ \E wp \in { MasterInitParam, WorkerInitParam } :
         /\ w_mu = [ k \in Workers |-> [ r \in Regions |-> wp ] ]
         /\ w_sigmasq = [ k \in Workers |-> [ r \in Regions |-> wp ] ]
    /\ chan = [ k \in Workers |-> << >> ]
    /\ bcast = [ k \in Workers |-> << >> ]
    /\ to_master = [ k \in Workers |-> << >> ]
    /\ dispatch_count = << >>
    /\ last_work = [ k \in Workers |-> [ start |-> 0, iter |-> 0, snap |-> InitThetaRow ] ]
    /\ accepts_sent = [ p \in Positions |-> 0 ]
    /\ accepted_jobs = { }
    /\ scan_i = 0
    /\ scan_geo = << >>

\* run() up to the call of master() / worker(): load_data on a read-count
\* vector and a region-label vector of the same length
Init ==
    /\ chrom_length \in 1..MaxL
    /\ cfg_block_width \in { << >> } \cup { << b >> : b \in 1..MaxBW }
    /\ template_size \in 1..MaxTemplate
    /\ n_proc \in 1..MaxProc
    /\ max_iter \in 1..MaxIter
    /\ n_regions \in 1..MaxRegions
    /\ reads_size = chrom_length
    /\ region_types_size = chrom_length
    /\ region_types \in Labelings(chrom_length, n_regions)
    /\ RegionsLoaded
    /\ PriorOfRun
    /\ SummaryIdle
    /\ InitProcesses

----------------------------------------------------------------------------
\* master()

\* Lines 288-329: block width, buffers, schedule.  chrom_length / n_workers
\* raises ZeroDivisionError without workers, and np.arange raises on a zero
\* step: the coordinator then dies before sending anything.
MasterSetup ==
    /\ m_pc = "setup"
    /\ IF (cfg_block_width = << >> /\ n_workers = 0) \/ BlockWidth = 0
       THEN /\ m_pc' = "crashed"
            /\ UNCHANGED << t, start_vec >>
       ELSE /\ start_vec' = DoubleScan(chrom_length, BlockWidth)
            /\ t' = IF 1 < max_iter THEN 1 ELSE t
            /\ m_pc' = IF 1 < max_iter THEN "sync" ELSE "halt"
    /\ UNCHANGED << theta, mu, sigmasq, n_jobs, n_started, n_completed, assigned,
                    accept_stats >>
    /\ UNCHANGED << cfgvars, summvars, workervars, chan, bcast, to_master, histvars, scanvars >>

\* Lines 338-350: SYNC to every worker, the three broadcasts, theta[t] = theta[t-1]
MasterSync ==
    /\ m_pc = "sync"
    /\ chan' = [ k \in Workers |-> Append(chan[k], SyncMsg) ]
    /\ bcast' = [ k \in Workers |-> bcast[k] \o BcastPayloads(t) ]
    /\ theta' = [ theta EXCEPT ![t] = theta[t - 1] ]
    /\ m_pc' = "dispatch"
    /\ accepted_jobs' = { }
    /\ UNCHANGED << t, mu, sigmasq, start_vec, n_jobs, n_started, n_completed,
                    assigned, accept_stats >>
    /\ UNCHANGED << cfgvars, summvars, workervars, to_master, dispatch_count, last_work,
                    accepts_sent, scanvars >>

\* Identity of the draw of the block dispatched as the j-th of iteration tt
JobId(sv, j, tt) ==
    << tt, sv[j], Cardinality({ i \in 1..(j - 1) : sv[i] = sv[j] }) >>

\* (variant: the first batch stops after one worker)
FirstBatchOne(sv) == 1..Min(1, Len(sv))

\* Workers that receive a block in the first batch: range(1, min(n_workers, size)+1)
FirstBatch(sv) == 1..Min(n_workers, Len(sv))

\* assigned after the first batch: assigned[k-1] = start_vec[k-1] for each k
RECURSIVE AssignBatch(_, _, _, _)
AssignBatch(asg, sv, k, last) ==
    IF k > last THEN asg
    ELSE AssignBatch(RecordAssigned(asg, k, sv[k], t), sv, k + 1, last)

\* (variant: the first batch does not advance n_started)
StartedAfterBatchZero(sv) == 0

\* n_started after the first batch: one per worker served (line 365)
StartedAfterBatch(sv) == Min(n_workers, Len(sv))

\* Lines 352-365: counters, shuffle, first batch of jobs
MasterDispatch ==
    /\ m_pc = "dispatch"
    /\ \E sv \in Shuffles(start_vec) :
         /\ start_vec' = sv
         /\ n_jobs' = Len(sv)
         /\ n_completed' = 0
         /\ n_started' = StartedAfterBatch(sv)
         /\ chan' = [ k \in Workers |->
                        IF k \in FirstBatch(sv)
                        THEN Append(chan[k], WorkMsg(sv[k], JobId(sv, k, t)))
                        ELSE chan[k] ]
         /\ assigned' = AssignBatch(assigned, sv, 1, Min(n_workers, Len(sv)))
         /\ dispatch_count' = [ i \in 1..Len(sv) |->
                                  IF i \in FirstBatch(sv) THEN 1 ELSE 0 ]
         /\ last_work' = [ k \in Workers |->
                             IF k \in FirstBatch(sv)
                             THEN [ start |-> sv[k], iter |-> t, snap |-> theta[t] ]
                             ELSE last_work[k] ]
    /\ m_pc' = "collect"
    /\ UNCHANGED << t, theta, mu, sigmasq, accept_stats >>
    /\ UNCHANGED << cfgvars, summvars, workervars, bcast, to_master, accepts_sent,
                    accepted_jobs, scanvars >>

\* (variant: the payload is sent ahead of its UPDATE command)
NextBlockMessagesPayloadFirst(row, work) == << ThetaMsg(row), UpdateMsg, work >>

\* Lines 385-390: the three messages to the worker that just finished: UPDATE,
\* the row theta[t], and the WORK command of the next block
NextBlockMessages(row, work) == << UpdateMsg, ThetaMsg(row), work >>

\* Lines 369-392: one pass of the work loop, receiving the result of `worker`
MasterRecv(worker) ==
    /\ m_pc = "collect"
    /\ to_master[worker] # << >>
    /\ LET msg == Head(to_master[worker])
           start == assigned[worker].start
           end == BlockEnd(start, BlockWidth, chrom_length)
           merged == MergeIntoRow(theta, t, start, end, msg.data)
       IN  /\ to_master' = [ to_master EXCEPT ![worker] = Tail(@) ]
           /\ n_completed' = n_completed + 1
           /\ accept_stats' = CountAccept(accept_stats, start, end, msg.tag)
           /\ theta' = merged
           /\ IF n_started < n_jobs
              THEN /\ chan' = [ chan EXCEPT ![worker] =
                                  @ \o NextBlockMessages(UpdatePayload(merged, t),
                                          WorkMsg(start_vec[n_started + 1],
                                                  JobId(start_vec, n_started + 1, t))) ]
                   /\ assigned' = RecordAssigned(assigned, worker,
                                                 start_vec[n_started + 1], t)
                   /\ n_started' = n_started + 1
                   /\ dispatch_count' = [ dispatch_count EXCEPT ![n_started + 1] = @ + 1 ]
                   /\ last_work' = [ last_work EXCEPT ![worker] =
                          [ start |-> start_vec[n_started + 1], iter |-> t,
                            snap |-> merged[t] ] ]
              ELSE UNCHANGED << chan, assigned, n_started, dispatch_count, last_work >>
           /\ m_pc' = IF LoopDone(n_completed + 1, n_jobs) THEN "gibbs" ELSE "collect"
    /\ UNCHANGED << t, mu, sigmasq, start_vec, n_jobs >>
    /\ UNCHANGED << cfgvars, summvars, workervars, bcast, accepts_sent, accepted_jobs,
                    scanvars >>

\* Lines 396-410: draw sigmasq[t,r] and mu[t,r] for every region, then the
\* next pass of "for t in xrange(1, max_iter)"
MasterGibbs ==
    /\ m_pc = "gibbs"
    /\ sigmasq' = [ sigmasq EXCEPT ![t] = [ r \in Regions |-> ParamDraw(t) ] ]
    /\ mu' = [ mu EXCEPT ![t] = [ r \in Regions |-> ParamDraw(t) ] ]
    /\ IF t + 1 < max_iter
       THEN t' = t + 1 /\ m_pc' = "sync"
       ELSE t' = t /\ m_pc' = "halt"
    /\ UNCHANGED << theta, start_vec, n_jobs, n_started, n_completed, assigned,
                    accept_stats >>
    /\ UNCHANGED << cfgvars, summvars, workervars, chan, bcast, to_master, histvars, scanvars >>

\* Lines 428-437: STOP to every worker, return the draw histories
MasterHalt ==
    /\ m_pc = "halt"
    /\ chan' = [ k \in Workers |->
                   IF k \in HaltDests THEN Append(chan[k], StopMsg) ELSE chan[k] ]
    /\ m_pc' = "returned"
    /\ UNCHANGED << t, theta, mu, sigmasq, start_vec, n_jobs, n_started, n_completed,
                    assigned, accept_stats >>
    /\ UNCHANGED << cfgvars, summvars, workervars, bcast, to_master, histvars, scanvars >>

----------------------------------------------------------------------------
\* worker(), rank k.  Between two handlers the worker waits in comm.Recv at the
\* top of its loop; a handler runs to its end once its messages are there.

\* The command the loop would take next
NextCommand(k) == Head(chan[k])

AtCommand(k, tag) ==
    /\ w_state[k] = "working"
    /\ chan[k] # << >>
    /\ NextCommand(k).tag = tag

\* Lines 495-496: STOP (any message read by the loop with tag 0) ends the loop
WorkerStop(k) ==
    /\ AtCommand(k, STOPTAG)
    /\ chan' = [ chan EXCEPT ![k] = Tail(@) ]
    /\ w_state' = [ w_state EXCEPT ![k] = "stopped" ]
    /\ UNCHANGED << w_theta, w_mu, w_sigmasq >>
    /\ UNCHANGED << cfgvars, summvars, mastervars, bcast, to_master, histvars, scanvars >>

\* Lines 497-501: SYNC, then the three broadcasts into theta, mu, sigmasq
WorkerSync(k) ==
    /\ AtCommand(k, SYNCTAG)
    /\ Len(bcast[k]) >= 3
    /\ chan' = [ chan EXCEPT ![k] = Tail(@) ]
    /\ w_theta' = [ w_theta EXCEPT ![k] = bcast[k][1] ]
    /\ w_mu' = [ w_mu EXCEPT ![k] = bcast[k][2] ]
    /\ w_sigmasq' = [ w_sigmasq EXCEPT ![k] = bcast[k][3] ]
    /\ bcast' = [ bcast EXCEPT ![k] = SubSeq(@, 4, Len(@)) ]
    /\ UNCHANGED w_state
    /\ UNCHANGED << cfgvars, summvars, mastervars, to_master, histvars, scanvars >>

\* Lines 615-617: UPDATE, then the next message from the coordinator into theta
WorkerUpdate(k) ==
    /\ AtCommand(k, UPDATETAG)
    /\ Len(chan[k]) >= 2
    /\ w_theta' = [ w_theta EXCEPT ![k] = chan[k][2].data ]
    /\ chan' = [ chan EXCEPT ![k] = SubSeq(@, 3, Len(@)) ]
    /\ UNCHANGED << w_state, w_mu, w_sigmasq >>
    /\ UNCHANGED << cfgvars, summvars, mastervars, bcast, to_master, histvars, scanvars >>

\* theta_prop = theta_block.copy(); theta_prop[subset] = theta_draw, on absolute
\* positions; `job` names the draw
ThetaProp(local, g, job) ==
    [ p \in Positions |-> IF p \in SubsetPositions(g) THEN job ELSE local[p] ]

\* (variant: the tail of ret_val is not cleared)
RetValStaleTail(vec, g, bw) ==
    [ i \in 1..bw |->
        IF i <= g.end - g.start
        THEN vec[g.block_start + g.original_start + i - 1]
        ELSE Uninit ]

\* ret_val[end-start:] = 0 ; ret_val[:end-start] = vec[original]
RetVal(vec, g, bw) ==
    [ i \in 1..bw |->
        IF i <= g.end - g.start
        THEN vec[g.block_start + g.original_start + i - 1]
        ELSE Zero ]

\* (variant: a result is not transmitted)
TransmitNothing(q, res) == q

\* (variant: a reject branch without its "continue" transmits a second time)
TransmitTwice(q, res) == Append(Append(q, res), res)

\* comm.Send(ret_val, dest=MPIROOT, tag=accept): the result joins the messages
\* from this worker that the coordinator has not yet received
Transmit(q, res) == Append(q, res)

\* (variant: a numeric reject returns the proposal's values)
NumericRejectSendsProposal(local, g, job, bw) ==
    [ tag |-> 0, data |-> RetVal(ThetaProp(local, g, job), g, bw),
      ratio_evaluated |-> FALSE ]

\* Lines 548-553 and 572-577: "always reject": tag 0 and the current values.
\* A result is the vector ret_val and its tag; ratio_evaluated records whether
\* the worker computed log_accept_prob for it (it is not transmitted).
NumericReject(local, g, job, bw) ==
    [ tag |-> 0, data |-> RetVal(local, g, bw), ratio_evaluated |-> FALSE ]

\* (variant: the proposal's values are returned on both branches)
MHResultProposalEitherWay(accepted, local, g, job, bw) ==
    [ tag |-> IF accepted THEN 1 ELSE 0,
      data |-> RetVal(ThetaProp(local, g, job), g, bw),
      ratio_evaluated |-> TRUE ]

\* Lines 606-614: the MH step
MHResult(accepted, local, g, job, bw) ==
    IF accepted
    THEN [ tag |-> 1, data |-> RetVal(ThetaProp(local, g, job), g, bw),
           ratio_evaluated |-> TRUE ]
    ELSE [ tag |-> 0, data |-> RetVal(local, g, bw), ratio_evaluated |-> TRUE ]

\* The ways one block can end.  The solver, the factorization and the random
\* draws are external: the factorization may fail on any block, the overflow
\* guard and the MH step may go either way.  With size_subset < 0 the
\* matrix handed to cholmod is empty; if the factorization returns,
\* np.random.standard_t(size=size_subset) raises and the worker dies.
Outcomes(g) ==
    IF g.size_subset >= 0
    THEN { "chol_fail", "overflow", "accept", "reject" }
    ELSE { "chol_fail", "crash" }

\* (variant: theta_prop is the view theta_block itself, so the draw is written
\* through to the worker's theta)
ThetaAfterWorkInPlace(local, g, job, o) ==
    IF o \in { "overflow", "accept", "reject" } THEN ThetaProp(local, g, job) ELSE local

\* The worker's theta after a block.  theta_block = theta[block] is a view of
\* theta, theta_prop a copy of it (line 566); the draw is written to the copy
\* and ret_val is filled by reading, so theta is left as it was.
ThetaAfterWork(local, g, job, o) == local

\* Lines 502-614: WORK
WorkerWork(k, o) ==
    /\ AtCommand(k, WORKTAG)
    /\ LET msg == NextCommand(k)
           bw == BlockWidth
           g == BlockGeometry(msg.data, bw, chrom_length, HaloW)
       IN  /\ o \in Outcomes(g)
           /\ chan' = [ chan EXCEPT ![k] = Tail(@) ]
           /\ CASE o \in { "chol_fail", "overflow" } ->
                     /\ to_master' = [ to_master EXCEPT ![k] =
                            Transmit(@, NumericReject(w_theta[k], g, msg.job, bw)) ]
                     /\ UNCHANGED << w_state, accepts_sent, accepted_jobs >>
                [] o \in { "accept", "reject" } ->
                     /\ to_master' = [ to_master EXCEPT ![k] =
                            Transmit(@, MHResult(o = "accept", w_theta[k], g, msg.job, bw)) ]
                     /\ accepts_sent' = [ p \in Positions |->
                            IF o = "accept" /\ g.start <= p /\ p < g.end
                            THEN accepts_sent[p] + 1 ELSE accepts_sent[p] ]
                     /\ accepted_jobs' = IF o = "accept"
                                         THEN accepted_jobs \cup { msg.job }
                                         ELSE accepted_jobs
                     /\ UNCHANGED w_state
                [] o = "crash" ->
                     /\ w_state' = [ w_state EXCEPT ![k] = "crashed" ]
                     /\ UNCHANGED << to_master, accepts_sent, accepted_jobs >>
           /\ w_theta' = [ w_theta EXCEPT ![k] = ThetaAfterWork(@, g, msg.job, o) ]
    /\ UNCHANGED << w_mu, w_sigmasq >>
    /\ UNCHANGED << cfgvars, summvars, mastervars, bcast, dispatch_count, last_work,
                    scanvars >>

WorkOutcomes == { "chol_fail", "overflow", "accept", "reject", "crash" }

----------------------------------------------------------------------------
\* One step of worker k, whichever handler it is
WorkerStep(k) ==
    /\ k \in Workers
    /\ \/ WorkerStop(k)
       \/ WorkerSync(k)
       \/ WorkerUpdate(k)
       \/ \E o \in WorkOutcomes : WorkerWork(k, o)

Next ==
    \/ MasterSetup
    \/ MasterSync
    \/ MasterDispatch
    \/ \E k \in Workers : MasterRecv(k)
    \/ MasterGibbs
    \/ MasterHalt
    \/ \E k \in Workers : WorkerStop(k)
    \/ \E k \in Workers : WorkerSync(k)
    \/ \E k \in Workers : WorkerUpdate(k)
    \/ \E k \in Workers, o \in WorkOutcomes : WorkerWork(k, o)

Spec == Init /\ [][Next]_vars

\* Every worker is a process of its own that keeps running: a worker whose
\* next command has arrived eventually handles it; the coordinator keeps running.
MasterStep ==
    \/ MasterSetup
    \/ MasterSync
    \/ MasterDispatch
    \/ \E k \in Workers : MasterRecv(k)
    \/ MasterGibbs
    \/ MasterHalt

FairSpec ==
    /\ Init
    /\ [][Next]_vars
    /\ WF_vars(MasterStep)
    /\ \A k \in 1..(MaxProc - 1) : WF_vars(WorkerStep(k))

----------------------------------------------------------------------------
\* The schedule alone, over wider ranges of chrom_length, block_width and
\* template size: master() builds start_vec, and the worker's block
\* arithmetic (lines 503-512) is applied to each entry in turn.

SchedInit ==
    /\ chrom_length \in 1..MaxSchedL
    /\ cfg_block_width \in { << b >> : b \in 1..MaxSchedBW }
    /\ template_size \in 1..MaxSchedTemplate
    /\ n_proc = 2
    /\ max_iter = 1
    /\ n_regions = 1
    /\ reads_size = chrom_length
    /\ region_types_size = chrom_length
    /\ region_types \in Labelings(chrom_length, n_regions)
    /\ RegionsLoaded
    /\ PriorOfRun
    /\ SummaryIdle
    /\ InitProcesses

ScanBlock ==
    /\ m_pc = "halt"
    /\ scan_i < Len(start_vec)
    /\ scan_i' = scan_i + 1
    /\ scan_geo' = Append(scan_geo,
                          BlockGeometry(start_vec[scan_i + 1], BlockWidth,
                                        chrom_length, HaloW))
    /\ UNCHANGED << cfgvars, summvars, mastervars, workervars, chan, bcast, to_master, histvars >>

SchedNext ==
    \/ MasterSetup
    \/ ScanBlock

SchedSpec == SchedInit /\ [][SchedNext]_vars

----------------------------------------------------------------------------
\* The region-level update in numbers (master(), lines 396-410).  Here theta
\* holds integers, and a real number computed from them is an exact fraction
\* << numerator, denominator >>; a zero denominator is a division by zero
\* (inf or NaN in floating point).

PriorValues == { 1, 2 }             \* a0 and b0: positive
ShrinkageValues == { 0, 1 }         \* k0: not negative
GibbsRegionCounts == { 1, 2 }
\* np.random.gamma(shape, scale=1.) returns a positive number for shape > 0
GammaDraws == { << 1, 2 >>, << 2, 1 >> }

\* region_list[r] and region_sizes[r]
RegionOf(r) == { p \in Positions : region_types[p] = r }
RegionSize(r) == Cardinality(RegionOf(r))

RECURSIVE SumOver(_, _)
SumOver(S, row) ==
    IF S = {} THEN 0
    ELSE LET p == CHOOSE q \in S : TRUE
         IN  row[p] + SumOver(S \ { p }, row)

SumSq(S, row) == SumOver(S, [ p \in DOMAIN row |-> row[p] * row[p] ])

\* (variant: the rate without the prior's b0)
RateNumerNoPrior(row, r) ==
    LET n == RegionSize(r)
        S == SumOver(RegionOf(r), row)
        Q == SumSq(RegionOf(r), row)
        d == S - n * prior_mean[r]
    IN  (1 + prior.k0) * (n * Q - S * S) + prior.k0 * d * d

\* rate_sigmasq = var(theta[t,region])*n/2 + b0 + k0*n/2/(1+k0)*(mean - prior_mean[r])^2
\* over the common denominator 2n(1+k0): with S the sum and Q the sum of
\* squares over the region, var*n/2 = (nQ - S^2)/(2n) and
\* mean - prior_mean = (S - n*prior_mean)/n.
RateNumer(row, r) ==
    LET n == RegionSize(r)
        S == SumOver(RegionOf(r), row)
        Q == SumSq(RegionOf(r), row)
        d == S - n * prior_mean[r]
    IN  (1 + prior.k0) * (n * Q - S * S)
        + 2 * n * (1 + prior.k0) * prior.b0
        + prior.k0 * d * d

RateDenom(r) == 2 * RegionSize(r) * (1 + prior.k0)

\* shape_sigmasq = n/2 + a0, doubled
ShapeTwice(r) == RegionSize(r) + 2 * prior.a0

\* sigmasq[t,r] = rate_sigmasq / gamma, for the gamma draw g
SigmasqDraw(row, r, g) == << RateNumer(row, r) * g[2], RateDenom(r) * g[1] >>

\* mu[t,r] = mean_mu + sqrt(var_mu)*randn: a normal draw, named by its mean
\* (mean + prior_mean*k0)/(1+k0) and its variance sigmasq/(1+k0)/n
MuDraw(row, r, sig) ==
    LET n == RegionSize(r)
        S == SumOver(RegionOf(r), row)
    IN  [ mean |-> << S + n * prior_mean[r] * prior.k0, n * (1 + prior.k0) >>,
          var |-> << sig[1], sig[2] * (1 + prior.k0) * n >> ]

\* The coordinator has merged the last result of the one sweep of a
\* two-iteration run; theta[1] is any row of small integers.
GibbsInit ==
    /\ chrom_length \in 1..MaxGibbsL
    /\ reads_size = chrom_length
    /\ region_types_size = chrom_length
    /\ cfg_block_width = << 1 >>
    /\ template_size = 1
    /\ n_proc = 2
    /\ max_iter = 2
    /\ n_regions \in GibbsRegionCounts
    /\ region_types \in Labelings(chrom_length, n_regions)
    /\ RegionsLoaded
    /\ prior \in [ a0 : PriorValues, b0 : PriorValues, k0 : ShrinkageValues ]
    /\ prior_mean \in [ Regions -> 0..MaxTheta ]
    /\ SummaryIdle
    /\ m_pc = "gibbs"
    /\ t = 1
    /\ \E row \in [ Positions -> (0 - MaxTheta)..MaxTheta ] :
         theta = [ s \in 0..1 |-> IF s = 0 THEN [ p \in Positions |-> 0 ] ELSE row ]
    /\ mu = [ s \in 0..1 |-> [ r \in Regions |-> << 0, 1 >> ] ]
    /\ sigmasq = [ s \in 0..1 |-> [ r \in Regions |-> << 1, 1 >> ] ]
    /\ start_vec = DoubleScan(chrom_length, 1)
    /\ n_jobs = Len(start_vec) /\ n_started = n_jobs /\ n_completed = n_jobs
    /\ assigned = [ k \in Workers |-> [ start |-> 0, iter |-> 1 ] ]
    /\ accept_stats = [ p \in Positions |-> 0 ]
    /\ w_state = [ k \in Workers |-> "working" ]
    /\ w_theta = [ k \in Workers |-> theta[0] ]
    /\ w_mu = [ k \in Workers |-> mu[0] ]
    /\ w_sigmasq = [ k \in Workers |-> sigmasq[0] ]
    /\ chan = [ k \in Workers |-> << >> ]
    /\ bcast = [ k \in Workers |-> << >> ]
    /\ to_master = [ k \in Workers |-> << >> ]
    /\ dispatch_count = [ i \in 1..Len(start_vec) |-> 1 ]
    /\ last_work = [ k \in Workers |-> [ start |-> 0, iter |-> 1, snap |-> theta[0] ] ]
    /\ accepts_sent = [ p \in Positions |-> 0 ]
    /\ accepted_jobs = { }
    /\ scan_i = 0
    /\ scan_geo = << >>

\* Lines 396-410 with the values: one gamma draw per region
RegionUpdate ==
    /\ m_pc = "gibbs"
    /\ \A r \in Regions : ShapeTwice(r) > 0
    /\ \E g \in [ Regions -> GammaDraws ] :
         LET sig == [ r \in Regions |-> SigmasqDraw(theta[t], r, g[r]) ]
         IN  /\ sigmasq' = [ sigmasq EXCEPT ![t] = sig ]
             /\ mu' = [ mu EXCEPT ![t] = [ r \in Regions |-> MuDraw(theta[t], r, sig[r]) ] ]
    /\ IF t + 1 < max_iter
       THEN t' = t + 1 /\ m_pc' = "sync"
       ELSE t' = t /\ m_pc' = "halt"
    /\ UNCHANGED << theta, start_vec, n_jobs, n_started, n_completed, assigned,
                    accept_stats >>
    /\ UNCHANGED << cfgvars, summvars, workervars, chan, bcast, to_master, histvars, scanvars >>

GibbsNext == RegionUpdate

GibbsSpec == GibbsInit /\ [][GibbsNext]_vars

----------------------------------------------------------------------------
\* summarise_mcmc.py: find_maxima and greedy_maxima_search as functions of
\* their arguments.  x is a sequence of integers; position j of the source
\* (0-based) is x[j + 1].  Positions in candidates and peaks are 0-based.

\* up[j] of find_maxima: ones, then up[1:-1] = x[1:-1] > x[:-2], and with
\* boundary up[-1] = x[-1] > x[-2]
UpAt(xs, b, j) ==
    LET n == Len(xs)
    IN  IF 1 <= j /\ j <= n - 2 THEN (IF xs[j + 1] > xs[j] THEN 1 ELSE 0)
        ELSE IF b /\ j = n - 1 THEN (IF xs[n] > xs[n - 1] THEN 1 ELSE 0)
        ELSE 1

\* down[j] of find_maxima: ones, then down[1:-1] = x[2:] < x[1:-1], and with
\* boundary down[0] = x[1] < x[0]
DownAt(xs, b, j) ==
    LET n == Len(xs)
    IN  IF 1 <= j /\ j <= n - 2 THEN (IF xs[j + 2] < xs[j + 1] THEN 1 ELSE 0)
        ELSE IF b /\ j = 0 THEN (IF xs[2] < xs[1] THEN 1 ELSE 0)
        ELSE 1

\* x[1] and x[-2] do not exist in a sequence shorter than 2: IndexError
FindMaximaRaises(xs, b) == b /\ Len(xs) < 2

\* maxima = up*down
FindMaximaResult(xs, b) ==
    [ i \in 1..Len(xs) |-> UpAt(xs, b, i - 1) * DownAt(xs, b, i - 1) ]

\* np.where(find_maxima(x))[0], then the two boundary filters: a set of positions
Candidates(xs, rb) ==
    LET m == FindMaximaResult(xs, FALSE)
        all == { j \in 0..(Len(xs) - 1) : m[j + 1] # 0 }
    IN  IF rb > 0 THEN { j \in all : j >= rb /\ j < Len(xs) - rb } ELSE all

\* The set S as an ascending sequence (ndarray.sort on distinct integers)
RECURSIVE SortedSeq(_)
SortedSeq(S) ==
    IF S = {} THEN << >>
    ELSE LET lo == CHOOSE a \in S : \A b \in S : a <= b
         IN  << lo >> \o SortedSeq(S \ { lo })

\* candidates[np.argsort(x[candidates])][::-1]: by score, descending; the
\* order among equal scores is whatever the sort leaves
CandidateOrders(xs, rb) ==
    { o \in Shuffles(SortedSeq(Candidates(xs, rb))) :
        \A i, j \in 1..Len(o) : i < j => xs[o[i] + 1] >= xs[o[j] + 1] }

\* np.min(np.abs(candidate - peaks[:n_peaks]))
DistanceCandidate(c, acc) ==
    LET ds == { (IF c >= acc[i] THEN c - acc[i] ELSE acc[i] - c) : i \in 1..Len(acc) }
    IN  CHOOSE d \in ds : \A e \in ds : d <= e

\* size of the preallocated peaks vector
PeaksSize(xs, ms) == Len(xs) \div ms + 2

\* The loop over the candidates from the i-th on; acc is peaks[:n_peaks].
\* Writing past the preallocated vector is an IndexError.
RECURSIVE GreedyLoop(_, _, _, _)
GreedyLoop(o, i, acc, size) ==
    IF i > Len(o) THEN [ raised |-> FALSE, peaks |-> acc ]
    ELSE IF DistanceCandidate(o[i], acc) <= min_spacing
         THEN GreedyLoop(o, i + 1, acc, size)
         ELSE IF Len(acc) >= size
              THEN [ raised |-> TRUE, peaks |-> acc ]
              ELSE GreedyLoop(o, i + 1, Append(acc, o[i]), size)

\* greedy_maxima_search for one order of the candidates.  candidates[0] of an
\* empty array is an IndexError; the loop runs only for more than one candidate.
GreedyResult(xs, ms, o) ==
    IF Len(o) = 0 THEN [ raised |-> TRUE, peaks |-> << >> ]
    ELSE IF Len(o) > 1 THEN GreedyLoop(o, 1, << o[1] >>, PeaksSize(xs, ms))
    ELSE [ raised |-> FALSE, peaks |-> << o[1] >> ]

\* The set of the entries of a sequence
Entries(q) == { q[i] : i \in 1..Len(q) }

\* Sequences of values 0..MaxVal, of length 1..MaxX
Inputs == UNION { [ 1..n -> 0..MaxVal ] : n \in 1..MaxX }

\* A call is about to be made on some arguments
SearchInit ==
    /\ x \in Inputs
    /\ boundary \in BOOLEAN
    /\ min_spacing \in 1..MaxSpacing
    /\ remove_boundary \in 0..MaxRemove
    /\ maxima = << >>
    /\ peaks = << >>
    /\ positions = << >>
    /\ s_pc = "called"
    /\ chrom_length = 1 /\ reads_size = 1 /\ region_types_size = 1
    /\ cfg_block_width = << 1 >> /\ template_size = 1
    /\ n_proc = 1 /\ max_iter = 1 /\ n_regions = 1
    /\ region_types \in Labelings(chrom_length, n_regions)
    /\ RegionsLoaded
    /\ PriorOfRun
    /\ InitProcesses

\* find_maxima(x, boundary), lines 435-465
FindMaxima ==
    /\ s_pc = "called"
    /\ IF FindMaximaRaises(x, boundary)
       THEN s_pc' = "raised" /\ UNCHANGED maxima
       ELSE s_pc' = "found" /\ maxima' = FindMaximaResult(x, boundary)
    /\ UNCHANGED << x, boundary, min_spacing, remove_boundary, peaks, positions >>
    /\ UNCHANGED << cfgvars, mastervars, workervars, chan, bcast, to_master, histvars,
                    scanvars >>

\* greedy_maxima_search(x, min_spacing, remove_boundary), lines 520-576
GreedyMaximaSearch ==
    /\ s_pc = "called"
    /\ \E o \in CandidateOrders(x, remove_boundary) :
         LET res == GreedyResult(x, min_spacing, o)
         IN  IF res.raised
             THEN s_pc' = "raised" /\ UNCHANGED peaks
             ELSE s_pc' = "searched" /\ peaks' = SortedSeq(Entries(res.peaks))
    /\ UNCHANGED << x, boundary, min_spacing, remove_boundary, maxima, positions >>
    /\ UNCHANGED << cfgvars, mastervars, workervars, chan, bcast, to_master, histvars,
                    scanvars >>

SearchNext ==
    \/ FindMaxima
    \/ GreedyMaximaSearch

SearchSpec == SearchInit /\ [][SearchNext]_vars

----------------------------------------------------------------------------
\* summarise_mcmc.py: maxima_search, one pass of its while loop at a time.
\* ps is the array positions; its 0-based index i is ps[i + 1], and the
\* 0-based index i of spacing = np.diff(positions) is SpacingAt(ps, i).

SpacingAt(ps, i) == ps[i + 2] - ps[i + 1]

SpacingIndexes(ps) == 0..(Len(ps) - 2)

\* spacing.size > 0 and spacing.min() < min_spacing
BadOverlaps(ps, ms) == \E i \in SpacingIndexes(ps) : SpacingAt(ps, i) < ms

SetMin(S) == CHOOSE a \in S : \A b \in S : a <= b
SetMax(S) == CHOOSE a \in S : \A b \in S : a >= b

\* first_bad = np.min(np.where(spacing < min_spacing)[0])
FirstBad(ps, ms) == SetMin({ i \in SpacingIndexes(ps) : SpacingAt(ps, i) < ms })

\* good = np.where(spacing >= min_spacing)[0]
Good(ps, ms) == { i \in SpacingIndexes(ps) : SpacingAt(ps, i) >= ms }

\* last_in_cluster: with dist = first_bad - good, the good index of largest
\* negative dist (the nearest one after first_bad) plus one, capped; or
\* spacing.size + 1
LastInCluster(ps, ms) ==
    LET after == { g \in Good(ps, ms) : FirstBad(ps, ms) - g < 0 }
    IN  IF after # { } THEN Min(SetMin(after) + 1, Len(ps) - 1 + 1)
        ELSE Len(ps) - 1 + 1

\* first_in_cluster: the good index of smallest positive dist (the nearest
\* one before first_bad) plus one; or 0
FirstInCluster(ps, ms) ==
    LET before == { g \in Good(ps, ms) : FirstBad(ps, ms) - g > 0 }
    IN  IF before # { } THEN Max(0, SetMax(before) + 1) ELSE 0

\* top_in_cluster = first_in_cluster + np.argmax(x[positions[first:last]]):
\* the first position with the largest value in the slice
TopInCluster(xs, ps, ms) ==
    LET first == FirstInCluster(ps, ms)
        last == Min(LastInCluster(ps, ms), Len(ps))
        best == SetMax({ xs[ps[i + 1] + 1] : i \in first..(last - 1) })
    IN  SetMin({ i \in first..(last - 1) : xs[ps[i + 1] + 1] = best })

\* keep: all ones, less the neighbours of top_in_cluster nearer than min_spacing
Keep(xs, ps, ms) ==
    LET top == TopInCluster(xs, ps, ms)
    IN  { i \in 0..(Len(ps) - 1) :
            /\ ~(top > 0 /\ i = top - 1 /\ ps[top + 1] - ps[top] < ms)
            /\ ~(top < Len(ps) - 1 /\ i = top + 1 /\ ps[top + 2] - ps[top + 1] < ms) }

\* positions[keep]
PositionsKept(xs, ps, ms) ==
    SortedSeq({ ps[i + 1] : i \in Keep(xs, ps, ms) })

\* Sequences of values 0..MaxSpacedVal, of length 1..MaxSpacedX
SpacedInputs == UNION { [ 1..n -> 0..MaxSpacedVal ] : n \in 1..MaxSpacedX }

\* A call of maxima_search is about to be made on some arguments
SpacedInit ==
    /\ x \in SpacedInputs
    /\ boundary = FALSE
    /\ min_spacing \in 1..MaxSpacedSpacing
    /\ remove_boundary \in 0..MaxRemove
    /\ maxima = << >>
    /\ peaks = << >>
    /\ positions = << >>
    /\ s_pc = "called"
    /\ chrom_length = 1 /\ reads_size = 1 /\ region_types_size = 1
    /\ cfg_block_width = << 1 >> /\ template_size = 1
    /\ n_proc = 1 /\ max_iter = 1 /\ n_regions = 1
    /\ region_types \in Labelings(chrom_length, n_regions)
    /\ RegionsLoaded
    /\ PriorOfRun
    /\ InitProcesses

\* Lines 602-610: the maxima found by find_maxima(x), less the boundary
MaximaSearchCall ==
    /\ s_pc = "called"
    /\ positions' = SortedSeq(Candidates(x, remove_boundary))
    /\ s_pc' = "looping"
    /\ UNCHANGED << x, boundary, min_spacing, remove_boundary, maxima, peaks >>
    /\ UNCHANGED << cfgvars, mastervars, workervars, chan, bcast, to_master, histvars,
                    scanvars >>

\* Lines 613-676: one pass of the while loop; a pass that removes nothing
\* reports that the search is stuck and breaks
MaximaSearchPass ==
    /\ s_pc = "looping"
    /\ BadOverlaps(positions, min_spacing)
    /\ positions' = PositionsKept(x, positions, min_spacing)
    /\ s_pc' = IF Len(positions') = Len(positions) THEN "stuck" ELSE "looping"
    /\ UNCHANGED << x, boundary, min_spacing, remove_boundary, maxima, peaks >>
    /\ UNCHANGED << cfgvars, mastervars, workervars, chan, bcast, to_master, histvars,
                    scanvars >>

\* Lines 613 and 678: the loop condition fails and positions is returned
MaximaSearchReturn ==
    /\ s_pc = "looping"
    /\ ~BadOverlaps(positions, min_spacing)
    /\ s_pc' = "spaced"
    /\ UNCHANGED << x, boundary, min_spacing, remove_boundary, maxima, peaks, positions >>
    /\ UNCHANGED << cfgvars, mastervars, workervars, chan, bcast, to_master, histvars,
                    scanvars >>

SpacedNext ==
    \/ MaximaSearchCall
    \/ MaximaSearchPass
    \/ MaximaSearchReturn

SpacedSpec == SpacedInit /\ [][SpacedNext]_vars

----------------------------------------------------------------------------
\* run() from its first line: load_data on a read-count vector and a
\* region-label vector of any two lengths, initialize, then master() and
\* worker() as above.

\* Before load_data returns nothing of the sampler exists
RunInit ==
    /\ reads_size \in 1..MaxL
    /\ region_types_size \in 1..MaxL
    /\ chrom_length = 0
    /\ cfg_block_width \in { << >> } \cup { << b >> : b \in 1..MaxBW }
    /\ template_size \in 1..MaxTemplate
    /\ n_proc \in 1..MaxProc
    /\ max_iter \in 1..MaxIter
    /\ n_regions = 0
    /\ region_types \in RegionFiles(region_types_size)
    /\ region_ids = { } /\ region_list = << >> /\ region_sizes = << >>
    /\ prior = [ a0 |-> 1, b0 |-> 1, k0 |-> 1 ]
    /\ prior_mean = << >>
    /\ SummaryIdle
    /\ m_pc = "load"
    /\ t = 0
    /\ theta = << >> /\ mu = << >> /\ sigmasq = << >>
    /\ start_vec = << >>
    /\ n_jobs = 0 /\ n_started = 0 /\ n_completed = 0
    /\ assigned = [ k \in Workers |-> [ start |-> 0, iter |-> 0 ] ]
    /\ accept_stats = << >>
    /\ w_state = [ k \in Workers |-> "working" ]
    /\ w_theta = [ k \in Workers |-> << >> ]
    /\ w_mu = [ k \in Workers |-> << >> ]
    /\ w_sigmasq = [ k \in Workers |-> << >> ]
    /\ chan = [ k \in Workers |-> << >> ]
    /\ bcast = [ k \in Workers |-> << >> ]
    /\ to_master = [ k \in Workers |-> << >> ]
    /\ dispatch_count = << >>
    /\ last_work = [ k \in Workers |-> [ start |-> 0, iter |-> 0, snap |-> << >> ] ]
    /\ accepts_sent = << >>
    /\ accepted_jobs = { }
    /\ scan_i = 0
    /\ scan_geo = << >>

\* load_data lines 83-105, initialize and run lines 648-658: the chromosome
\* length is the smaller of the two sizes, both vectors are truncated to it,
\* the labels are shifted to start at 0 and the region data built from them;
\* every process then runs initialize and goes on to master() / worker().
\* n_regions is region_ids.size (lines 156, 276).  Where mu and sigmasq are not
\* loaded from the EM output, initialize fills sigmasq[r] for r in region_ids
\* (lines 189-203), which raises IndexError for an id >= region_ids.size.
LoadData ==
    /\ m_pc = "load"
    /\ LET L == Min(region_types_size, reads_size)
           lab == ZeroBased(Truncated(region_types, L))
           nr == Cardinality(RegionIds(lab))
           cols == 0..(nr - 1)
           row(v) == [ p \in 0..(L - 1) |-> v ]
       IN  /\ chrom_length' = L
           /\ region_types' = lab
           /\ region_ids' = RegionIds(lab)
           /\ region_list' = RegionList(lab)
           /\ region_sizes' = RegionSizes(lab)
           /\ n_regions' = nr
           /\ prior_mean' = [ r \in cols |-> 0 ]
           /\ theta' = [ s \in 0..(max_iter - 1) |->
                            IF s = 0 THEN row(InitVal) ELSE row(Uninit) ]
           /\ accept_stats' = row(0)
           /\ w_theta' = [ k \in Workers |-> row(InitVal) ]
           /\ last_work' = [ k \in Workers |->
                               [ start |-> 0, iter |-> 0, snap |-> row(InitVal) ] ]
           /\ accepts_sent' = row(0)
           /\ mu' = [ s \in 0..(max_iter - 1) |->
                        [ r \in cols |-> IF s = 0 THEN MasterInitParam ELSE UninitParam ] ]
           /\ sigmasq' = [ s \in 0..(max_iter - 1) |->
                        [ r \in cols |-> IF s = 0 THEN MasterInitParam ELSE UninitParam ] ]
           /\ \E wp \in { MasterInitParam, WorkerInitParam } :
                /\ w_mu' = [ k \in Workers |-> [ r \in cols |-> wp ] ]
                /\ w_sigmasq' = [ k \in Workers |-> [ r \in cols |-> wp ] ]
                /\ IF wp = WorkerInitParam /\ \E r \in RegionIds(lab) : r >= nr
                   THEN /\ m_pc' = "crashed"
                        /\ w_state' = [ k \in Workers |-> "crashed" ]
                   ELSE /\ m_pc' = "setup"
                        /\ UNCHANGED w_state
    /\ UNCHANGED << reads_size, region_types_size, cfg_block_width, template_size,
                    n_proc, max_iter, prior >>
    /\ UNCHANGED << t, start_vec, n_jobs, n_started, n_completed, assigned >>
    /\ UNCHANGED << summvars, chan, bcast, to_master, dispatch_count,
                    accepted_jobs, scanvars >>

RunNext ==
    \/ LoadData
    \/ Next

RunSpec == RunInit /\ [][RunNext]_vars

----------------------------------------------------------------------------
\* load_data on any region file: label vectors of up to MaxLabelL labels from
\* 0..MaxLabel, in any order, with a read-count vector of any length

RegionInit ==
    /\ reads_size \in 1..MaxLabelL
    /\ region_types_size \in 1..MaxLabelL
    /\ chrom_length = 0
    /\ cfg_block_width = << 1 >>
    /\ template_size = 1
    /\ n_proc = 1
    /\ max_iter = 1
    /\ n_regions = 0
    /\ region_types \in [ 0..(region_types_size - 1) -> 0..MaxLabel ]
    /\ region_ids = { } /\ region_list = << >> /\ region_sizes = << >>
    /\ prior = [ a0 |-> 1, b0 |-> 1, k0 |-> 1 ]
    /\ prior_mean = << >>
    /\ SummaryIdle
    /\ m_pc = "load"
    /\ t = 0
    /\ theta = << >> /\ mu = << >> /\ sigmasq = << >>
    /\ start_vec = << >>
    /\ n_jobs = 0 /\ n_started = 0 /\ n_completed = 0
    /\ assigned = [ k \in Workers |-> [ start |-> 0, iter |-> 0 ] ]
    /\ accept_stats = << >>
    /\ w_state = [ k \in Workers |-> "working" ]
    /\ w_theta = [ k \in Workers |-> << >> ]
    /\ w_mu = [ k \in Workers |-> << >> ]
    /\ w_sigmasq = [ k \in Workers |-> << >> ]
    /\ chan = [ k \in Workers |-> << >> ]
    /\ bcast = [ k \in Workers |-> << >> ]
    /\ to_master = [ k \in Workers |-> << >> ]
    /\ dispatch_count = << >>
    /\ last_work = [ k \in Workers |-> [ start |-> 0, iter |-> 0, snap |-> << >> ] ]
    /\ accepts_sent = << >>
    /\ accepted_jobs = { }
    /\ scan_i = 0
    /\ scan_geo = << >>

RegionNext == LoadData

RegionSpec == RegionInit /\ [][RegionNext]_vars

----------------------------------------------------------------------------
\* Properties

\* Output range [start, min(start+block_width, L)) of the block at `start`
OutRange(start) ==
    { p \in Positions : start <= p /\ p < BlockEnd(start, BlockWidth, chrom_length) }

\* The coordinator is inside the dispatch / work loop of iteration t, or just past it
InSweep == m_pc \in { "collect", "gibbs" }

\* The step is a pass of the work loop that receives a result of worker k
RecvStep(k) ==
    /\ m_pc = "collect"
    /\ Len(to_master'[k]) < Len(to_master[k])

\* C1: in every iteration the output ranges of the blocks dispatched so far are
\* pairwise disjoint, and once all are dispatched and merged their union is
\* [0,L): each position is written by exactly one block.
C1_WrittenExactlyOnce ==
    InSweep =>
        /\ \A i, j \in 1..n_started :
             i # j => OutRange(start_vec[i]) \cap OutRange(start_vec[j]) = {}
        /\ m_pc = "gibbs" =>
             UNION { OutRange(start_vec[i]) : i \in 1..n_started } = Positions

\* C2: no update is lost within a sweep: a position holding a proposal accepted
\* in iteration t changes only when an accepted result is merged whose worker
\* computed it from a snapshot that already held that value; it is never
\* overwritten from an older snapshot.
C2_NoLostUpdate ==
    [][ \A k \in Workers :
          RecvStep(k) =>
            \A p \in Positions :
              (theta[t][p] # theta[t - 1][p] /\ theta'[t][p] # theta[t][p]) =>
                 /\ Head(to_master[k]).tag = 1
                 /\ w_theta[k][p] = theta[t][p] ]_vars

\* C3: after the coordinator merges a rejected result (tag 0) for the block
\* [start,end), theta[t, start:end] equals theta[t-1, start:end].
C3_RejectKeepsPreviousRow ==
    [][ \A k \in Workers :
          (RecvStep(k) /\ Head(to_master[k]).tag = 0) =>
            \A p \in OutRange(last_work[k].start) :
              theta'[t][p] = theta[t - 1][p] ]_vars

\* C4: each result received is written to exactly [a, min(a+block_width, L)),
\* a being the start most recently sent to the sending worker, and the
\* assignment-table entry used was recorded in the current iteration.
C4_PlacedByCurrentAssignment ==
    [][ \A k \in Workers :
          RecvStep(k) =>
            LET a == last_work[k].start
                ret_val == Head(to_master[k]).data
            IN  /\ last_work[k].iter = t
                /\ assigned[k].iter = t
                /\ assigned[k].start = a
                /\ \A p \in Positions :
                     theta'[t][p] = IF p \in OutRange(a)
                                    THEN ret_val[p - a + 1]
                                    ELSE theta[t][p] ]_vars

\* C4 witness: a result of the second iteration is waiting while its worker has
\* had more than one block in that iteration
C4_Witness ==
    /\ m_pc = "collect"
    /\ t = 2
    /\ \E k \in Workers :
         /\ to_master[k] # << >>
         /\ n_started > n_workers
         /\ last_work[k].start # start_vec[k]

\* A worker holds a block: a WORK command it has not handled, or a result the
\* coordinator has not received
HoldsBlock(k) ==
    \/ to_master[k] # << >>
    \/ \E i \in 1..Len(chan[k]) : chan[k][i].tag = WORKTAG

\* C5: when the coordinator begins the region update of iteration t it has
\* received exactly n_jobs results, every schedule entry has been dispatched
\* exactly once, and no worker holds a block.
C5_BarrierBeforeRegionUpdate ==
    m_pc = "gibbs" =>
        /\ n_completed = n_jobs
        /\ n_jobs = Len(start_vec)
        /\ \A i \in 1..Len(start_vec) : dispatch_count[i] = 1
        /\ \A k \in Workers : ~HoldsBlock(k)

\* C5 witness: the region update of the second iteration is reached after a
\* sweep with more blocks than workers
C5_Witness ==
    /\ m_pc = "gibbs"
    /\ t = 2
    /\ n_jobs > n_workers
    /\ n_workers = 2

\* C6: a worker about to handle a WORK command dispatched in iteration tt has
\* taken the SYNC and all three broadcasts of that iteration (its mu and
\* sigmasq are the coordinator's mu[tt-1] and sigmasq[tt-1]), and the SYNC of
\* an iteration is only sent when no worker holds a block.
C6_SyncBeforeWork ==
    /\ \A k \in Workers :
         AtCommand(k, WORKTAG) =>
           LET tt == NextCommand(k).job[1]
           IN  /\ tt = t
               /\ bcast[k] = << >>
               /\ w_mu[k] = mu[tt - 1]
               /\ w_sigmasq[k] = sigmasq[tt - 1]
    /\ m_pc = "sync" => \A k \in Workers : ~HoldsBlock(k)

\* C6 witness: a worker is about to handle a block of the second iteration,
\* when mu[1] and sigmasq[1] are region-level draws, not the initial values
C6_Witness ==
    \E k \in Workers :
        /\ AtCommand(k, WORKTAG)
        /\ NextCommand(k).job[1] = 2
        /\ w_mu[k] = [ r \in Regions |-> ParamDraw(1) ]

\* C7: on a numeric reject (factorization failure or overflow guard) the worker
\* sends exactly one result, with tag 0, whose first end-start entries are its
\* current values of [start,end), without evaluating the acceptance ratio, and
\* stays in its command loop; the coordinator's sweep goes on.
C7_NumericReject ==
    [][ \A k \in Workers, o \in { "chol_fail", "overflow" } :
          WorkerWork(k, o) =>
            LET start == NextCommand(k).data
                end == BlockEnd(start, BlockWidth, chrom_length)
                res == to_master'[k][Len(to_master'[k])]
            IN  /\ Len(to_master'[k]) = Len(to_master[k]) + 1
                /\ res.tag = 0
                /\ \A i \in 1..(end - start) : res.data[i] = w_theta[k][start + i - 1]
                /\ ~res.ratio_evaluated
                /\ w_state'[k] = "working"
                /\ m_pc' = "collect" ]_vars

\* C7 witness: a numeric-reject result for a block with a non-empty proposal
\* subset is waiting for the coordinator, from a worker back in its loop
C7_Witness ==
    \E k \in Workers :
        /\ to_master[k] # << >>
        /\ ~Head(to_master[k]).ratio_evaluated
        /\ Head(to_master[k]).tag = 0
        /\ w_state[k] = "working"
        /\ m_pc = "collect"
        /\ BlockGeometry(last_work[k].start, BlockWidth, chrom_length,
                         HaloW).size_subset > 0
        /\ \E p \in Positions : theta[t][p] # theta[t - 1][p]

\* Number of STOP commands sent to worker k: those still in its channel, and
\* the one that made it leave its loop
StopsSent(k) ==
    Cardinality({ i \in 1..Len(chan[k]) : chan[k][i] = StopMsg })
    + (IF w_state[k] = "stopped" THEN 1 ELSE 0)

\* Every row of the three draw histories has been written
HistoryComplete ==
    /\ DOMAIN theta = 0..(max_iter - 1)
    /\ DOMAIN mu = 0..(max_iter - 1)
    /\ DOMAIN sigmasq = 0..(max_iter - 1)
    /\ \A s \in 0..(max_iter - 1) :
         /\ \A p \in Positions : theta[s][p] # Uninit
         /\ \A r \in Regions : mu[s][r] # UninitParam /\ sigmasq[s][r] # UninitParam

AllStopped == \A k \in Workers : w_state[k] = "stopped"

\* C8: no STOP is sent before the sweeps are over; once the coordinator has
\* returned (after max_iter-1 sweeps, none when max_iter = 1) exactly one STOP
\* has been sent to each worker, the histories have max_iter written rows, and
\* every worker eventually leaves its command loop.
C8_HaltAfterSweeps ==
    /\ [](m_pc # "returned" => \A k \in Workers : StopsSent(k) = 0)
    /\ [](m_pc = "returned" =>
            /\ \A k \in Workers : StopsSent(k) = 1
            /\ t = max_iter - 1
            /\ HistoryComplete)
    /\ (m_pc = "returned" ~> AllStopped)

\* C8 witness: two workers have left their loops after two sweeps
C8_Witness ==
    /\ m_pc = "returned"
    /\ n_workers = 2
    /\ max_iter = 3
    /\ AllStopped

\* C10: a step changes row s of theta, mu or sigmasq only while the
\* coordinator is in iteration s: rows below the current iteration never change.
C10_AppendOnly ==
    [][ \A s \in 0..(max_iter - 1) :
          (theta'[s] # theta[s] \/ mu'[s] # mu[s] \/ sigmasq'[s] # sigmasq[s]) =>
             /\ s = t
             /\ s >= 1
             /\ m_pc \in { "sync", "collect", "gibbs" } ]_vars

\* C10 witness: the second sweep is over and both sweeps changed theta
C10_Witness ==
    /\ m_pc = "halt"
    /\ t = 2
    /\ theta[1] # theta[0]
    /\ theta[2] # theta[1]

\* C15: a worker about to start a block holds the coordinator's theta[t] as it
\* was when that block was dispatched (theta[t-1] for the first batch), and
\* every WORK sent after the first batch follows, at the same worker, an
\* UPDATE whose payload is theta[t] with the result just merged.
C15_UpdateBeforeWork ==
    /\ [](\A k \in Workers :
            AtCommand(k, WORKTAG) =>
              /\ NextCommand(k).data = last_work[k].start
              /\ w_theta[k] = last_work[k].snap)
    /\ [][ \A k \in Workers :
              RecvStep(k) =>
                /\ (n_started' > n_started) =>
                     /\ Len(chan'[k]) = Len(chan[k]) + 3
                     /\ chan'[k][Len(chan[k]) + 1] = UpdateMsg
                     /\ chan'[k][Len(chan[k]) + 2] = ThetaMsg(theta'[t])
                     /\ chan'[k][Len(chan[k]) + 3].tag = WORKTAG
                     /\ last_work'[k].snap = theta'[t]
                /\ (n_started' = n_started) => chan' = chan ]_vars

\* C15 witness: a worker is about to start a block of a later batch with a
\* local theta that already holds a result accepted in this iteration
C15_Witness ==
    \E k \in Workers :
        /\ AtCommand(k, WORKTAG)
        /\ n_started > n_workers
        /\ w_theta[k] # theta[t - 1]
        /\ w_theta[k] = theta[t]

\* C16: a STOP has been sent only if the coordinator is past the last sweep
\* and no worker holds a block; nothing is sent to a worker after its STOP.
C16_StopOnlyWhenIdle ==
    \A k \in Workers :
        /\ StopsSent(k) > 0 =>
             /\ m_pc = "returned"
             /\ t = max_iter - 1
             /\ \A j \in Workers : ~HoldsBlock(j)
        /\ \A i \in 1..Len(chan[k]) : chan[k][i] = StopMsg => i = Len(chan[k])
        /\ w_state[k] = "stopped" => chan[k] = << >>

\* C16 witness: after two sweeps one worker has left its loop and the other
\* has its STOP waiting
C16_Witness ==
    /\ m_pc = "returned"
    /\ t = 2
    /\ \E j, k \in Workers :
         /\ w_state[j] = "stopped"
         /\ w_state[k] = "working"
         /\ chan[k] = << StopMsg >>

\* C17: whenever the coordinator waits for a result, some worker that is
\* still running holds an outstanding block.
C17_NoStarvedWait ==
    m_pc = "collect" =>
        \E k \in Workers : w_state[k] = "working" /\ HoldsBlock(k)

C19_ResultContents ==
    \A k \in Workers :
        to_master[k] # << >> =>
          LET msg == Head(to_master[k])
              start == last_work[k].start
              g == BlockGeometry(start, BlockWidth, chrom_length, HaloW)
          IN  /\ msg.tag \in { 0, 1 }
              /\ Len(msg.data) = BlockWidth
              /\ \A i \in 1..BlockWidth :
                   LET p == start + i - 1
                   IN  IF i <= g.end - start
                       THEN IF msg.tag = 1 /\ p \in SubsetPositions(g)
                            THEN /\ Len(msg.data[i]) = 3
                                 /\ msg.data[i][1] = t
                                 /\ msg.data[i][2] = start
                            ELSE msg.data[i] = w_theta[k][p]
                       ELSE msg.data[i] = Zero

\* C19 witness: an accepted result of a block shorter than block_width, with
\* a non-empty proposal subset
C19_Witness ==
    \E k \in Workers :
        /\ to_master[k] # << >>
        /\ Head(to_master[k]).tag = 1
        /\ LET g == BlockGeometry(last_work[k].start, BlockWidth, chrom_length, HaloW)
           IN  /\ g.end - g.start < BlockWidth
               /\ g.size_subset > 0

\* The step is the dispatch of the first batch of an iteration
DispatchStep == m_pc = "dispatch" /\ m_pc' = "collect"

\* Workers beyond the first batch
Unserved == { k \in Workers : k > Min(n_workers, n_jobs) }

\* C20: the dispatch step sends exactly one WORK to each of workers
\* 1..min(n_workers, n_jobs), carrying the first entries of the shuffled
\* schedule, and records them in the assignment table; the other workers are
\* sent nothing by it, get their SYNC with everyone else, and get no WORK or
\* UPDATE in that iteration.
C20_FirstBatch ==
    /\ [][ DispatchStep =>
              \A k \in Workers :
                IF k <= Min(n_workers, n_jobs')
                THEN /\ Len(chan'[k]) = Len(chan[k]) + 1
                     /\ chan'[k][Len(chan'[k])].tag = WORKTAG
                     /\ chan'[k][Len(chan'[k])].data = start_vec'[k]
                     /\ assigned'[k].start = start_vec'[k]
                     /\ n_started' = Min(n_workers, n_jobs')
                ELSE chan'[k] = chan[k] /\ assigned'[k] = assigned[k] ]_vars
    /\ [][ (m_pc = "sync" /\ m_pc' = "dispatch") =>
              \A k \in Workers : chan'[k] = Append(chan[k], SyncMsg) ]_vars
    /\ [](InSweep =>
            \A k \in Unserved :
              /\ last_work[k].iter # t
              /\ to_master[k] = << >>
              /\ \A i \in 1..Len(chan[k]) : chan[k][i].tag = SYNCTAG)

\* C20 witness: in the second iteration there are fewer blocks than workers,
\* and a worker without a block has taken that iteration's broadcasts
C20_Witness ==
    /\ m_pc = "collect"
    /\ t = 2
    /\ n_jobs < n_workers
    /\ \E k \in Unserved :
         /\ chan[k] = << >>
         /\ w_mu[k] = [ r \in Regions |-> ParamDraw(1) ]

\* A message that is the row of theta sent after an UPDATE command
IsThetaPayload(m) == m.tag = MPIROOT /\ m # StopMsg

\* The step takes the message at the head of chan[k]
TakesCommand(k) == Len(chan'[k]) < Len(chan[k])

\* C24: every message the command loop takes carries one of the four tags and
\* is a command: a row of theta in flight always has its UPDATE command
\* directly ahead of it, the UPDATE handler takes the two together and stores
\* the row, and a worker leaves its loop only on a STOP command.
C24_PayloadNeverACommand ==
    /\ [](\A k \in Workers : \A i \in 1..Len(chan[k]) :
            /\ chan[k][i].tag \in { STOPTAG, SYNCTAG, WORKTAG, UPDATETAG }
            /\ IsThetaPayload(chan[k][i]) => i > 1 /\ chan[k][i - 1] = UpdateMsg)
    /\ [][ \A k \in Workers :
             /\ (TakesCommand(k) /\ NextCommand(k).tag = UPDATETAG) =>
                   /\ IsThetaPayload(chan[k][2])
                   /\ chan'[k] = SubSeq(chan[k], 3, Len(chan[k]))
                   /\ w_theta'[k] = chan[k][2].data
             /\ (TakesCommand(k) /\ NextCommand(k).tag # UPDATETAG) =>
                   /\ ~IsThetaPayload(NextCommand(k))
                   /\ chan'[k] = Tail(chan[k])
             /\ (w_state[k] = "working" /\ w_state'[k] = "stopped") =>
                   NextCommand(k) = StopMsg ]_vars

\* C24 witness: a worker about to take a WORK command holds in its theta a
\* draw of the current iteration, which only an UPDATE payload can have brought
C24_Witness ==
    /\ m_pc = "collect"
    /\ \E k \in Workers :
         /\ AtCommand(k, WORKTAG)
         /\ \E p \in Positions : w_theta[k][p][1] = t

\* C25: a WORK command leaves the worker's theta, mu and sigmasq as they
\* were, whatever the outcome of the block; theta changes only in the SYNC and
\* UPDATE handlers, mu and sigmasq only in the SYNC handler.
C25_WorkLeavesLocalState ==
    [][ \A k \in Workers :
          /\ (TakesCommand(k) /\ NextCommand(k).tag = WORKTAG) =>
                /\ w_theta'[k] = w_theta[k]
                /\ w_mu'[k] = w_mu[k]
                /\ w_sigmasq'[k] = w_sigmasq[k]
          /\ w_theta'[k] # w_theta[k] =>
                TakesCommand(k) /\ NextCommand(k).tag \in { SYNCTAG, UPDATETAG }
          /\ (w_mu'[k] # w_mu[k] \/ w_sigmasq'[k] # w_sigmasq[k]) =>
                TakesCommand(k) /\ NextCommand(k).tag = SYNCTAG ]_vars

\* C25 witness: a worker has sent an accepted result whose draw is not in its
\* own theta
C25_Witness ==
    \E k \in Workers :
        /\ w_state[k] = "working"
        /\ to_master[k] # << >>
        /\ Head(to_master[k]).tag = 1
        /\ \E p \in OutRange(last_work[k].start) :
              /\ Head(to_master[k]).data[p - last_work[k].start + 1][1] = t
              /\ w_theta[k][p] # Head(to_master[k]).data[p - last_work[k].start + 1]

\* Positions the block of draw j may change: the worker's proposal subset
SubsetOfJob(j) == SubsetPositions(BlockGeometry(j[2], BlockWidth, chrom_length, HaloW))

\* Draws accepted in iteration t whose proposal subset contains p
AcceptedAt(p) == { j \in accepted_jobs : j[1] = t /\ p \in SubsetOfJob(j) }

\* C28: throughout iteration t, theta[t,p] is theta[t-1,p] or the value of a
\* draw accepted in iteration t by a block whose proposal subset contains p;
\* at the end of the work loop a position in the proposal subset of no
\* accepted block equals theta[t-1,p].
C28_ValuesFromAcceptedDraws ==
    m_pc \in { "dispatch", "collect", "gibbs" } =>
        /\ \A p \in Positions :
              \/ theta[t][p] = theta[t - 1][p]
              \/ theta[t][p] \in AcceptedAt(p)
        /\ m_pc = "gibbs" =>
              \A p \in Positions : AcceptedAt(p) = { } => theta[t][p] = theta[t - 1][p]

\* C28 witness: the first iteration has left an accepted draw in its row, and
\* at the end of the second work loop a position that lies in the output range
\* of an accepted block, but in no accepted block's proposal subset, holds the
\* first iteration's value
C28_Witness ==
    /\ m_pc = "gibbs"
    /\ t = 2
    /\ \E p \in Positions : theta[1][p][1] = 1
    /\ \E q \in Positions :
         /\ theta[t][q] = theta[t - 1][q]
         /\ AcceptedAt(q) = { }
         /\ \E j \in accepted_jobs : q \in OutRange(j[2])

\* Blocks worker k has been sent and has not returned: WORK commands it has
\* not taken, results the coordinator has not received, and the block a
\* crashed worker died on
Outstanding(k) ==
    Cardinality({ i \in 1..Len(chan[k]) : chan[k][i].tag = WORKTAG })
    + Len(to_master[k])
    + (IF w_state[k] = "crashed" THEN 1 ELSE 0)

\* C29: 0 <= n_completed <= n_started <= n_jobs, every worker holds at most
\* one outstanding block, n_started - n_completed is the number of workers
\* holding one (so at most n_workers), and an UPDATE or WORK is in flight only
\* to a worker whose sole outstanding block is the WORK command last sent.
C29_CountersAndOutstanding ==
    m_pc # "load" =>
        /\ 0 <= n_completed /\ n_completed <= n_started /\ n_started <= n_jobs
        /\ \A k \in Workers : Outstanding(k) <= 1
        /\ n_started - n_completed
              = Cardinality({ k \in Workers : Outstanding(k) = 1 })
        /\ n_started - n_completed <= n_workers
        /\ \A k \in Workers : \A i \in 1..Len(chan[k]) :
              chan[k][i].tag \in { UPDATETAG, WORKTAG } =>
                  /\ to_master[k] = << >>
                  /\ w_state[k] = "working"
                  /\ chan[k][Len(chan[k])].tag = WORKTAG

\* C29 witness: in the work loop, after a result has been received and its
\* worker sent UPDATE and the next block, two workers hold a block each
C29_Witness ==
    /\ m_pc = "collect"
    /\ n_completed >= 1
    /\ n_started - n_completed = 2
    /\ \E k \in Workers : chan[k] # << >> /\ Head(chan[k]) = UpdateMsg

\* The work loop of iteration t is over (and the next has not begun to merge)
SweepOver == m_pc \in { "gibbs", "sync", "dispatch", "halt", "returned" }

\* C21: once an iteration is complete, accept_stats[p] is the number of results
\* with tag 1 sent so far whose output range [start,end) contains p; a counter
\* never decreases, and it changes only in a pass of the work loop that
\* receives a result, and only on the output range of the block that result
\* belongs to.
C21_AcceptCounter ==
    /\ [](SweepOver => \A p \in Positions : accept_stats[p] = accepts_sent[p])
    /\ [][ \A p \in DOMAIN accept_stats :
             /\ accept_stats'[p] >= accept_stats[p]
             /\ accept_stats'[p] # accept_stats[p] =>
                   \E k \in Workers : /\ RecvStep(k)
                                       /\ p \in OutRange(last_work[k].start) ]_vars

\* C21 witness: after the second iteration one position has been accepted at
\* least twice and another less often
C21_Witness ==
    /\ m_pc = "gibbs"
    /\ t = 2
    /\ \E p, q \in Positions : accept_stats[p] >= 2 /\ accept_stats[q] < accept_stats[p]

\* Number of entries of the schedule equal to v
ScheduleCount(v) == Cardinality({ i \in 1..Len(start_vec) : start_vec[i] = v })

\* Starts of the first scan (multiples of block_width below L) and of the
\* second (block_width/2 plus a multiple of block_width, below L)
FirstScanStarts == { v \in 0..(chrom_length - 1) : v % BlockWidth = 0 }

SecondScanStarts ==
    { v \in 0..(chrom_length - 1) :
        v >= BlockWidth \div 2 /\ (v - BlockWidth \div 2) % BlockWidth = 0 }

\* The coordinator has built its schedule
Scheduled == m_pc \notin { "load", "setup", "crashed" }

\* C22: the schedule is the starts of the first scan followed by those of the
\* second, in ascending order, until the first shuffle; in every iteration it
\* holds each start of each scan exactly once (a permutation of the same
\* multiset), and n_jobs is its length in every iteration.
C22_SchedulePermutation ==
    Scheduled =>
        /\ \A v \in 0..(chrom_length - 1) :
              ScheduleCount(v) = (IF v \in FirstScanStarts THEN 1 ELSE 0)
                                 + (IF v \in SecondScanStarts THEN 1 ELSE 0)
        /\ \A i \in 1..Len(start_vec) : start_vec[i] \in 0..(chrom_length - 1)
        /\ (m_pc = "sync" /\ t = 1) =>
              \A i, j \in 1..Len(start_vec) :
                 i < j => \/ start_vec[i] < start_vec[j]
                          \/ i <= Cardinality(FirstScanStarts)
                             /\ j > Cardinality(FirstScanStarts)
        /\ InSweep =>
              n_jobs = Cardinality(FirstScanStarts) + Cardinality(SecondScanStarts)

\* C22 witness: in the second iteration the schedule of four blocks is in an
\* order that is neither scan order nor ascending
C22_Witness ==
    /\ m_pc = "collect"
    /\ t = 2
    /\ n_jobs = 4
    /\ start_vec[1] > start_vec[2]
    /\ start_vec[3] > start_vec[4]

----------------------------------------------------------------------------
\* Properties of the whole run (RunSpec)

\* No SYNC or WORK command is in flight and no row after the initial one holds
\* a value: MasterSync writes theta[t] in the step that sends the first SYNC.
NoSamplingYet ==
    /\ \A k \in Workers : \A i \in 1..Len(chan[k]) :
          chan[k][i].tag \notin { SYNCTAG, WORKTAG }
    /\ \A k \in Workers : bcast[k] = << >> /\ to_master[k] = << >>
    /\ \A s \in DOMAIN theta :
          s >= 1 => /\ \A p \in DOMAIN theta[s] : theta[s][p] = Uninit
                    /\ \A r \in Regions : mu[s][r] = UninitParam
                    /\ \A r \in Regions : sigmasq[s][r] = UninitParam

\* C11: when the read-count vector and the region-label vector have different
\* lengths, the run never begins sampling: no SYNC or WORK is sent and no
\* draw is produced.
C11_MismatchFailsBeforeSampling ==
    reads_size # region_types_size => NoSamplingYet

\* Positions of the slice region_list[r]
RegionRange(r) ==
    IF region_list[r] = << >> THEN { }
    ELSE { p \in Positions : region_list[r][1] <= p /\ p < region_list[r][2] }

\* C26: after load_data the labels are zero-based; for every region id r the
\* range region_list[r] holds exactly the positions labelled r and is
\* region_sizes[r] long; every position lies in exactly one region range; and
\* every id indexes one of the n_regions = region_ids.size columns.
C26_RegionPartition ==
    m_pc # "load" =>
        /\ \A p \in Positions : region_types[p] >= 0
        /\ \E p \in Positions : region_types[p] = 0
        /\ \A r \in region_ids :
              /\ RegionRange(r) = { p \in Positions : region_types[p] = r }
              /\ region_list[r][2] - region_list[r][1] = region_sizes[r]
        /\ \A p \in Positions :
              Cardinality({ r \in region_ids : p \in RegionRange(r) }) = 1
        /\ \A r \in region_ids : r \in 0..(n_regions - 1)

----------------------------------------------------------------------------
\* Properties of the region update (GibbsSpec)

\* A fraction that is a positive number
PositiveFrac(q) == q[1] * q[2] > 0

\* A normal draw that is a number: a mean without a zero denominator, and a
\* variance that is a number and not negative (np.sqrt of a negative is NaN)
NumberDraw(m) ==
    /\ m.mean[2] # 0
    /\ m.var[2] # 0
    /\ m.var[1] * m.var[2] >= 0

\* C12: after the region update of iteration t, sigmasq[t,r] > 0 for every
\* region r and both draws are numbers, regions of size 1 (whose variance is
\* 0) included.
C12_SigmasqPositive ==
    m_pc = "halt" =>
        \A r \in Regions :
            /\ PositiveFrac(sigmasq[t][r])
            /\ NumberDraw(mu[t][r])

\* C12 witness: the update has run on a region of size 1 whose value is its
\* prior mean, so that the rate is the prior's b0 alone
C12_Witness ==
    /\ m_pc = "halt"
    /\ \E r \in Regions :
         /\ RegionSize(r) = 1
         /\ \A p \in RegionOf(r) : theta[t][p] = prior_mean[r]
         /\ n_regions = 2

----------------------------------------------------------------------------
\* Properties of the peak searches (SearchSpec)

\* Position j is a low-high-low local maximum of x
LowHighLow(j) ==
    /\ 0 < j /\ j < Len(x) - 1
    /\ x[j] < x[j + 1]
    /\ x[j + 1] > x[j + 2]

\* C13: greedy_maxima_search returns positions in ascending order, each a
\* low-high-low local maximum at least remove_boundary from either end, any
\* two more than min_spacing apart, and no more of them than the
\* preallocated len(x)/min_spacing + 2.
C13_GreedyPeaks ==
    s_pc = "searched" =>
        /\ \A i \in 1..(Len(peaks) - 1) : peaks[i] < peaks[i + 1]
        /\ \A i \in 1..Len(peaks) :
             /\ LowHighLow(peaks[i])
             /\ peaks[i] >= remove_boundary
             /\ peaks[i] < Len(x) - remove_boundary
        /\ \A i, j \in 1..Len(peaks) :
             i < j => peaks[j] - peaks[i] > min_spacing
        /\ Len(peaks) <= Len(x) \div min_spacing + 2

\* C14: find_maxima(x, boundary=False) marks position j exactly when j is a
\* low-high-low local maximum; with boundary=True the first and the last
\* position are marked only if they exceed their single neighbour.
C14_InteriorExactly ==
    s_pc = "found" =>
        /\ ~boundary =>
             \A j \in 0..(Len(x) - 1) : (maxima[j + 1] # 0) <=> LowHighLow(j)
        /\ boundary =>
             /\ \A j \in 1..(Len(x) - 2) : (maxima[j + 1] # 0) <=> LowHighLow(j)
             /\ maxima[1] # 0 => x[1] > x[2]
             /\ maxima[Len(x)] # 0 => x[Len(x)] > x[Len(x) - 1]

\* C27: when maxima_search returns without reporting that it is stuck, the
\* positions returned are low-high-low local maxima of x at least
\* remove_boundary from either end, in ascending order, any two consecutive
\* ones at least min_spacing apart.
C27_SpacedMaxima ==
    s_pc = "spaced" =>
        /\ \A i \in 1..Len(positions) :
              /\ LowHighLow(positions[i])
              /\ remove_boundary <= positions[i]
              /\ positions[i] < Len(x) - remove_boundary
        /\ \A i \in 1..(Len(positions) - 1) :
              positions[i + 1] - positions[i] >= min_spacing

----------------------------------------------------------------------------
\* Properties of the schedule (SchedSpec)

ScanDone == start_vec # << >> /\ scan_i = Len(start_vec)

\* Position p is strictly interior to the block g
Interior(p, g) == g.start + HaloW <= p /\ p < g.end - HaloW

\* Positions not within w of either end of the sequence
NonBoundary == { p \in Positions : HaloW <= p /\ p < chrom_length - HaloW }

\* C9 as stated: for every L, block width and halo, every non-boundary
\* position is strictly interior to some block of the double-scan schedule.
C9_InteriorEveryWidth ==
    ScanDone =>
        \A p \in NonBoundary : \E i \in 1..Len(scan_geo) : Interior(p, scan_geo[i])

\* C9 amended: the same, for block widths with block_width/2 >= 2w.
C9_InteriorWideBlocks ==
    (ScanDone /\ BlockWidth \div 2 >= 2 * HaloW) =>
        \A p \in NonBoundary : \E i \in 1..Len(scan_geo) : Interior(p, scan_geo[i])

\* C9 witness: a wide-block schedule in which some non-boundary position is
\* interior to no block of the first scan, so the second scan is what covers it
C9_Witness ==
    /\ ScanDone
    /\ BlockWidth \div 2 >= 2 * HaloW
    /\ HaloW = 2
    /\ \E p \in NonBoundary :
         \A i \in 1..Len(scan_geo) :
            scan_geo[i].start % BlockWidth = 0 => ~Interior(p, scan_geo[i])

\* C23: the positions that two distinct blocks of the schedule may change
\* (their proposal subsets) are disjoint.
C23_ProposalSubsetsDisjoint ==
    ScanDone =>
        \A i, j \in 1..Len(scan_geo) :
            i # j => SubsetPositions(scan_geo[i]) \cap SubsetPositions(scan_geo[j]) = { }

\* C30: for every entry of the schedule the padded block lies in [0,L), the
\* proposal subset is a non-empty range inside the output range [start,end),
\* and the output range lies in [0,L) and is at most block_width long.
C30_BlockArithmetic ==
    \A i \in 1..Len(scan_geo) :
        LET g == scan_geo[i]
        IN  /\ 0 <= g.block_start /\ g.block_start <= g.block_stop
            /\ g.block_stop <= chrom_length
            /\ g.subset_stop > g.subset_start
            /\ g.start <= g.block_start + g.subset_start
            /\ g.block_start + g.subset_stop <= g.end
            /\ 0 <= g.start /\ g.end <= chrom_length
            /\ g.end - g.start <= BlockWidth

====
